---- MODULE Spec2Model ----
(***************************************************************************)
(* Lead management backend: the lead router (auth gate, validation, the    *)
(* three read handlers getLeads / getLeadById / getAnalytics), the zod     *)
(* schemas of the list query and the id path, and the application level    *)
(* 404 and error handlers, over a Lead collection held by the record       *)
(* store.  Text is modelled as sequences of one-character strings so that  *)
(* substring search, case folding, the id pattern and number coercion are  *)
(* computed rather than assumed.                                           *)
(***************************************************************************)
EXTENDS Integers, Sequences, FiniteSets, TLC

(***************************************************************************)
(* Bounds of the model.                                                    *)
(***************************************************************************)
\* largest number of leads the collection holds
MaxLeads == 3
\* largest number of query-string parameters one list request carries
MaxParams == 2

(***************************************************************************)
(* Program constants.                                                      *)
(***************************************************************************)
\* z.number().max(100) on limit
MaxLimit == 100
\* {24} of the ObjectId pattern
IdLen == 24

(***************************************************************************)
(* Text helpers.                                                           *)
(***************************************************************************)
Digits == <<"0", "1", "2", "3", "4", "5", "6", "7", "8", "9">>

IsDigit(c) == \E i \in 1..Len(Digits) : Digits[i] = c

DigitVal(c) == (CHOOSE i \in 1..Len(Digits) : Digits[i] = c) - 1

UpperCase == <<"A", "B", "C", "D", "E", "F", "N", "O", "W">>
LowerCase == <<"a", "b", "c", "d", "e", "f", "n", "o", "w">>

\* case folding of one character, as a case-insensitive comparison does it
Lower(c) ==
  IF \E i \in 1..Len(UpperCase) : UpperCase[i] = c
  THEN LowerCase[CHOOSE i \in 1..Len(UpperCase) : UpperCase[i] = c]
  ELSE c

ToLower(s) == [i \in 1..Len(s) |-> Lower(s[i])]

\* s contains t as a contiguous substring (exact characters)
Contains(s, t) ==
  \E i \in 0..(Len(s) - Len(t)) :
    \A j \in 1..Len(t) : s[i + j] = t[j]

\* Prisma { contains: t, mode: 'insensitive' }
ContainsInsensitive(s, t) == Contains(ToLower(s), ToLower(t))

RECURSIVE DigitsValue(_)
DigitsValue(s) ==
  IF s = <<>> THEN 0
  ELSE 10 * DigitsValue(SubSeq(s, 1, Len(s) - 1)) + DigitVal(s[Len(s)])

AllDigits(s) == \A i \in 1..Len(s) : IsDigit(s[i])

\* JavaScript Number(string) on decimal literals: "" is 0, an optional
\* sign, digits with an optional fraction; anything else is NaN.
\* val is the integer part; int says whether the value is an integer.
NumberOf(s) ==
  IF s = <<>> THEN [nan |-> FALSE, int |-> TRUE, val |-> 0]
  ELSE
    LET neg  == s[1] = "-"
        body == IF neg \/ s[1] = "+" THEN Tail(s) ELSE s
        dots == {i \in 1..Len(body) : body[i] = "."}
        dot  == IF dots = {} THEN Len(body) + 1
                ELSE CHOOSE i \in dots : \A k \in dots : i <= k
        whole == SubSeq(body, 1, dot - 1)
        frac  == SubSeq(body, dot + 1, Len(body))
        wellFormed == /\ AllDigits(whole)
                      /\ AllDigits(frac)
                      /\ Len(whole) + Len(frac) > 0
        mag == DigitsValue(whole)
    IN IF ~wellFormed THEN [nan |-> TRUE, int |-> FALSE, val |-> 0]
       ELSE [nan |-> FALSE,
             int |-> \A i \in 1..Len(frac) : frac[i] = "0",
             val |-> IF neg THEN 0 - mag ELSE mag]

(***************************************************************************)
(* Enumerations of the validation schemas.                                 *)
(***************************************************************************)
LeadStageEnum ==
  {"NEW", "CONTACTED", "QUALIFIED", "PROPOSAL", "NEGOTIATION",
   "CLOSED_WON", "CLOSED_LOST"}

LeadStatusEnum == {"ACTIVE", "INACTIVE", "CONVERTED", "REJECTED"}

SortOrderEnum == {"asc", "desc"}

HexChars ==
  {"0", "1", "2", "3", "4", "5", "6", "7", "8", "9",
   "a", "b", "c", "d", "e", "f", "A", "B", "C", "D", "E", "F"}

(***************************************************************************)
(* The Lead collection.  A lead carries the fields the handlers read.      *)
(***************************************************************************)
ObjectId(c) == [i \in 1..IdLen |-> c]

Lead(id, fn, ln, em, ph, co, stg, sts, src, ctry, val, at) ==
  [id |-> id, firstName |-> fn, lastName |-> ln, email |-> em, phone |-> ph,
   company |-> co, stage |-> stg, status |-> sts, source |-> src,
   country |-> ctry, value |-> val, createdAt |-> at]

\* documents the collection may hold; emails are unique, as the store enforces
LeadPool ==
  { Lead(ObjectId("1"), <<"A","n">>, <<"B","o">>, <<"a","n","@","x">>,
         <<"1","2">>, <<"C","o">>, "NEW", "ACTIVE",
         <<"W","e","b">>, <<"U","S">>, 10, 3),
    Lead(ObjectId("2"), <<"B","o">>, <<"C","n">>, <<"b","o","@","x">>,
         <<"2","1">>, <<"N","x">>, "CLOSED_WON", "CONVERTED",
         <<"W","e","b">>, <<"U","K">>, 20, 1),
    Lead(ObjectId("a"), <<"E","d">>, <<"F","o">>, <<"e","d","@","x">>,
         <<"3","3">>, <<"c","o">>, "NEW", "INACTIVE",
         <<"R","e","f">>, <<"U","S">>, 10, 1),
    Lead(ObjectId("b"), <<"D","i">>, <<"A","n">>, <<"d","@","x">>,
         <<"4","0">>, <<"W","o">>, "CLOSED_LOST", "REJECTED",
         <<"w","e","b">>, <<"U","S">>, 0, 2),
    Lead(ObjectId("c"), <<"F","a">>, <<"B","o">>, <<"f","@","x">>,
         <<"5","5">>, <<"C","o">>, "CONTACTED", "ACTIVE",
         <<"R","e","f">>, <<"U","K">>, 30, 4) }

Collections == {s \in SUBSET LeadPool : Cardinality(s) <= MaxLeads}

\* columns of the Lead model a query may order by
LeadFields ==
  {"id", "firstName", "lastName", "email", "phone", "company", "stage",
   "status", "source", "country", "value", "createdAt"}

\* the User model: the account the seed script creates, and another
User(email, name) == [email |-> email, name |-> name]
DemoUser == User("demo@example.com", "Demo User")
OtherUser == User("other@example.com", "Other User")
UserCollections == {{}, {DemoUser}, {DemoUser, OtherUser}}

\* the most distinct source values a collection of the source analysis holds
MaxSources == 11

HexDigits ==
  <<"1", "2", "3", "4", "5", "6", "7", "8", "9", "a", "b", "c", "d", "e", "f">>

\* the j-th lead of the i-th source
SourceLead(i, j) ==
  Lead([k \in 1..IdLen |->
          IF k = 1 THEN HexDigits[i] ELSE IF k = 2 THEN HexDigits[j] ELSE "0"],
       <<"A","n">>, <<"B","o">>, <<HexDigits[i], HexDigits[j], "@", "x">>,
       <<"1","2">>, <<"C","o">>, "NEW", "ACTIVE",
       <<"S", HexDigits[i]>>, <<"U","S">>, 10, 1)

\* the collection with count[i] leads of the i-th source
SourceCollection(count) ==
  UNION {{SourceLead(i, j) : j \in 1..count[i]} : i \in DOMAIN count}

\* collections of n sources, n up to MaxSources, whose lead counts rise with
\* the source, fall with it, or rise in pairs of equal counts
SourceCollections ==
  UNION {{SourceCollection([i \in 1..n |-> (i + 1) \div 2]),
          SourceCollection([i \in 1..n |-> (n - i + 2) \div 2]),
          SourceCollection([i \in 1..n |-> 1 + (i % 3)])} :
         n \in 0..MaxSources}

(***************************************************************************)
(* Validation schemas (zod).  A raw query is a function from the names of  *)
(* the parameters present in the query string to their raw values.         *)
(***************************************************************************)
\* z.string().transform(Number).pipe(z.number().int().positive())
PageOk(raw) ==
  LET n == NumberOf(raw) IN ~n.nan /\ n.int /\ n.val > 0

\* the limit schema without .max(100)
LimitNoMax(raw) ==
  LET n == NumberOf(raw) IN ~n.nan /\ n.int /\ n.val > 0

\* z.string().transform(Number).pipe(z.number().int().positive().max(100))
LimitOk(raw) ==
  LET n == NumberOf(raw) IN ~n.nan /\ n.int /\ n.val > 0 /\ n.val <= MaxLimit

Has(q, k) == k \in DOMAIN q

\* the fields of the list query that fail leadQuerySchema
QueryIssues(raw) ==
  {k \in DOMAIN raw :
     \/ k = "stage" /\ raw[k] \notin LeadStageEnum
     \/ k = "status" /\ raw[k] \notin LeadStatusEnum
     \/ k = "sortOrder" /\ raw[k] \notin SortOrderEnum
     \/ k = "page" /\ ~PageOk(raw[k])
     \/ k = "limit" /\ ~LimitOk(raw[k])}

\* the typed, defaulted object leadQuerySchema produces from a valid query
QueryParsed(raw) ==
  [k \in DOMAIN raw \cup {"sortBy", "sortOrder", "page", "limit"} |->
     CASE k = "page"      ->
            NumberOf(IF Has(raw, k) THEN raw[k] ELSE <<"1">>).val
       [] k = "limit"     ->
            NumberOf(IF Has(raw, k) THEN raw[k] ELSE <<"1", "0">>).val
       [] k = "sortBy"    -> IF Has(raw, k) THEN raw[k] ELSE "createdAt"
       [] k = "sortOrder" -> IF Has(raw, k) THEN raw[k] ELSE "desc"
       [] OTHER           -> raw[k]]

\* /^[a-f\d]{24}$/i
IdOk(id) == Len(id) = IdLen /\ \A i \in 1..Len(id) : id[i] \in HexChars

(***************************************************************************)
(* Record store operations (Prisma client), as functions of the            *)
(* collection they run on.                                                 *)
(***************************************************************************)
SearchFields == {"firstName", "lastName", "email", "company", "phone"}

\* a lead satisfies a where object: the OR list is a disjunction, every
\* other key an equality, and the keys are conjoined
LeadMatches(l, where) ==
  /\ Has(where, "OR") =>
       \E c \in where["OR"] : ContainsInsensitive(l[c.field], c.contains)
  /\ \A k \in DOMAIN where \ {"OR"} : l[k] = where[k]

Matching(coll, where) == {l \in coll : LeadMatches(l, where)}

\* prisma.lead.count({ where })
Count(coll, where) == Cardinality(Matching(coll, where))

\* a before b in the order of one sort key; equal keys are in no order
KeyBefore(a, b, sortBy, sortOrder) ==
  IF sortOrder = "asc" THEN a[sortBy] < b[sortBy] ELSE a[sortBy] > b[sortBy]

\* the orders in which the store may return the leads of s
Orderings(s, sortBy, sortOrder) ==
  {o \in [1..Cardinality(s) -> s] :
     /\ \A i, j \in DOMAIN o : i # j => o[i] # o[j]
     /\ \A i, j \in DOMAIN o :
          i < j => ~KeyBefore(o[j], o[i], sortBy, sortOrder)}

Min(a, b) == IF a < b THEN a ELSE b

\* skip and take applied to an ordered result
Window(o, skip, take) == SubSeq(o, skip + 1, Min(Len(o), skip + take))

\* prisma.lead.findMany({ where, skip, take, orderBy }): its possible results
FindMany(coll, where, skip, take, sortBy, sortOrder) ==
  {Window(o, skip, take) :
     o \in Orderings(Matching(coll, where), sortBy, sortOrder)}

\* one group of prisma.lead.groupBy({ by: [field], _count: true }); a value
\* no lead has forms no group
GroupBy(coll, field) ==
  {[key |-> v, count |-> Cardinality({l \in coll : l[field] = v})] :
     v \in {l[field] : l \in coll}}

RECURSIVE SumValue(_)
SumValue(coll) ==
  IF coll = {} THEN 0
  ELSE LET l == CHOOSE x \in coll : TRUE
       IN l.value + SumValue(coll \ {l})

\* prisma.lead.aggregate({ _sum: { value }, _avg: { value } }): both are
\* null on an empty collection; the average is the exact quotient num/den
Aggregate(coll) ==
  IF coll = {}
  THEN [sum |-> [null |-> TRUE, val |-> 0],
        avg |-> [null |-> TRUE, num |-> 0, den |-> 1]]
  ELSE [sum |-> [null |-> FALSE, val |-> SumValue(coll)],
        avg |-> [null |-> FALSE, num |-> SumValue(coll),
                 den |-> Cardinality(coll)]]

\* take: 10 of the groupBy on source
TopSources == 10

\* the orders in which the store may return the groups g by descending
\* count; groups of equal count are in no order
RECURSIVE DescOrders(_)
DescOrders(g) ==
  IF g = {} THEN {<<>>}
  ELSE UNION {{<<x>> \o o : o \in DescOrders(g \ {x})} :
              x \in {x \in g : \A y \in g : x.count >= y.count}}

\* the groupBy on source without take
GroupBySourceAll(coll) == DescOrders(GroupBy(coll, "source"))

\* groupBy source ordered by _count desc, take 10: its possible results
GroupBySourceTop(coll) ==
  {Window(o, 0, TopSources) : o \in DescOrders(GroupBy(coll, "source"))}

(***************************************************************************)
(* Requests.                                                               *)
(***************************************************************************)
ParamNames ==
  {"search", "stage", "status", "source", "country", "sortBy", "sortOrder",
   "page", "limit"}

\* the raw values a parameter takes in the requests of the model
RawValues(k) ==
  CASE k = "search"    -> << <<>>, <<"B","O">>, <<"1","2">> >>
    [] k = "stage"     -> <<"NEW", "new">>
    [] k = "status"    -> <<"CONVERTED", "DONE">>
    [] k = "source"    -> << <<>>, <<"W","e","b">>, <<"w","e","b">> >>
    [] k = "country"   -> << <<"U","S">> >>
    [] k = "sortBy"    -> <<"value", "bogus">>
    [] k = "sortOrder" -> <<"asc", "up">>
    [] k = "page"      -> << <<"2">>, <<"0">>, <<"x">> >>
    [] k = "limit"     -> << <<"1">>, <<"2">>, <<"1","0","0">>,
                             <<"1","0","1">>, <<"1",".","5">>, <<>> >>

\* the query strings of the model: at most MaxParams parameters, each with
\* one of its raw values
RawQueries ==
  UNION {
    {[k \in d |-> RawValues(k)[pick[k]]] :
       pick \in {f \in [d -> 1..6] : \A k \in d : f[k] <= Len(RawValues(k))}} :
    d \in {d \in SUBSET ParamNames : Cardinality(d) <= MaxParams}}

NoQuery == [k \in {} |-> 0]

Tokens == {"missing", "malformed", "badSignature", "expired", "valid"}

AnalyticsSeg == <<"a","n","a","l","y","t","i","c","s">>

\* the path segments after /api/leads
LeadPaths ==
  { <<>>, <<AnalyticsSeg>>,
    <<ObjectId("1")>>, <<ObjectId("a")>>, <<ObjectId("f")>>, <<ObjectId("F")>>,
    <<[i \in 1..(IdLen - 1) |-> "1"]>>, <<[ObjectId("1") EXCEPT ![1] = "g"]>>,
    <<ObjectId("1"), AnalyticsSeg>> }

\* originalQuery is the query string as it arrived (req.originalUrl keeps
\* it); query is req.query, which validation replaces by the parsed object
Request(tok, mount, segs, q, bad) ==
  [token |-> tok, mount |-> mount, segs |-> segs, originalQuery |-> q,
   query |-> q, badBody |-> bad]

Requests ==
  {Request(t, "leads", <<>>, q, FALSE) : t \in Tokens, q \in RawQueries}
  \cup {Request(t, "leads", p, NoQuery, FALSE) : t \in Tokens, p \in LeadPaths}
  \cup {Request(t, m, <<>>, NoQuery, FALSE) : t \in Tokens, m \in {"root", "other"}}
  \cup {Request("valid", "leads", <<>>, NoQuery, TRUE)}

\* the values of process.env.NODE_ENV: the two the code names, and any other
NodeEnvs == {"production", "development", "unset"}

(***************************************************************************)
(* State.                                                                  *)
(***************************************************************************)
VARIABLES
  leads,       \* the Lead collection of the record store
  users,       \* the User collection of the record store
  pc,          \* the component the request in flight is at
  req,         \* the request in flight
  locals,      \* the local variables of the running handler
  resp,        \* the response sent for the request in flight
  invoked,     \* the components that ran for the request, in order
  storeOps,    \* the store operations issued for the request
  interleaved, \* a store write fell between two store operations of the request
  seedPc,      \* where the seed script is
  seedBatch,   \* the leads array the seed script builds
  usedEmails,  \* the usedEmails set of the seed script
  seedRuns,    \* how many times the seed script was started
  startPc,     \* where startServer is
  shutdownPc,  \* where the signal handler is
  dbConnected, \* whether the server's store connection is up
  exitCode     \* <<>> while the server process runs, then <<its exit code>>

seedVars == <<seedPc, seedBatch, usedEmails, seedRuns>>
serverVars == <<startPc, shutdownPc, dbConnected, exitCode>>
vars ==
  <<leads, users, pc, req, locals, resp, invoked, storeOps, interleaved,
    seedVars, serverVars>>

\* what no step of the request pipeline changes, the Lead collection aside
untouched == <<users, seedVars, serverVars, interleaved>>

NoLocals == [k \in {} |-> 0]
NoResp == [status |-> 0, body |-> [k \in {} |-> 0]]
NoRequest == Request("missing", "none", <<>>, NoQuery, FALSE)

\* the request side at rest: no request in flight
NoRequestInFlight ==
  /\ pc = "idle"
  /\ req = NoRequest
  /\ locals = NoLocals
  /\ resp = NoResp
  /\ invoked = <<>>
  /\ storeOps = 0
  /\ interleaved = FALSE

\* the seed script is not running
SeedAtRest ==
  /\ seedPc = "idle"
  /\ seedBatch = <<>>
  /\ usedEmails = {}
  /\ seedRuns = 0

\* startServer has connected and listens, no signal has arrived
ServerUp ==
  /\ startPc = "listening"
  /\ shutdownPc = "none"
  /\ dbConnected = TRUE
  /\ exitCode = <<>>

\* the server process has not exited; an exited process takes no step
Alive == exitCode = <<>>

\* the server is up over any Lead collection, and the seed script is not run
Init ==
  /\ leads \in Collections
  /\ users = {DemoUser}
  /\ NoRequestInFlight
  /\ SeedAtRest
  /\ ServerUp

(***************************************************************************)
(* Routing.                                                                *)
(***************************************************************************)
\* the routes with /:id registered ahead of /analytics
RoutesIdFirst ==
  << [path |-> "/", chain |-> <<"validateQuery", "getLeads">>],
     [path |-> "/:id", chain |-> <<"validateParams", "getLeadById">>],
     [path |-> "/analytics", chain |-> <<"getAnalytics">>] >>

\* the routes of the lead router, in the order they are registered
Routes ==
  << [path |-> "/", chain |-> <<"validateQuery", "getLeads">>],
     [path |-> "/analytics", chain |-> <<"getAnalytics">>],
     [path |-> "/:id", chain |-> <<"validateParams", "getLeadById">>] >>

PathMatches(path, segs) ==
  CASE path = "/"          -> segs = <<>>
    [] path = "/analytics" -> segs = <<AnalyticsSeg>>
    [] path = "/:id"       -> Len(segs) = 1

\* the handlers of the first registered route the path matches
RouteChain(segs) ==
  LET m == {i \in 1..Len(Routes) : PathMatches(Routes[i].path, segs)}
  IN IF m = {} THEN <<>>
     ELSE Routes[CHOOSE i \in m : \A j \in m : i <= j].chain

\* the router with the auth gate placed after the validator of each route
LeadRouterAuthLast(segs) ==
  LET c == RouteChain(segs)
  IN IF c = <<>> THEN <<"authMiddleware">>
     ELSE SubSeq(c, 1, Len(c) - 1) \o <<"authMiddleware", c[Len(c)]>>

\* the router without router.use(authMiddleware)
LeadRouterNoAuth(segs) == RouteChain(segs)

\* router.use(authMiddleware) runs ahead of every route of the router
LeadRouter(segs) == <<"authMiddleware">> \o RouteChain(segs)

\* next(): the component after the one running, or the application's 404
\* handler when the router has nothing more for the path
First(chain) == IF chain = <<>> THEN "notFound" ELSE chain[1]

NextOf(component) ==
  LET c == LeadRouter(req.segs)
      i == CHOOSE i \in 1..Len(c) : c[i] = component
  IN IF i < Len(c) THEN c[i + 1] ELSE "notFound"

(***************************************************************************)
(* Helpers of the actions.                                                 *)
(***************************************************************************)
Put(f, key, v) == [k \in DOMAIN f \cup {key} |-> IF k = key THEN v ELSE f[k]]

\* res.status(s).json(b) ends the request
Send(s, b) == resp' = [status |-> s, body |-> b] /\ pc' = "done"

\* the store operations may throw: the connection is lost, or the query
\* is one the client rejects
StoreErrors == {"PrismaClientKnownRequestError"}

\* a catch block that keeps the error and lets the handler issue the
\* operation again
Catch500Retry(error) ==
  /\ locals' = Put(locals, "error", error)
  /\ resp' = resp
  /\ pc' = pc

\* the catch block of the three handlers; error is the exception caught
Catch500(error) ==
  /\ locals' = Put(locals, "error", error)
  /\ Send(500, [error |-> "Internal server error"])

\* skip computed as page * limit
SkipFromPage(page, limit) == page * limit

\* const skip = (page - 1) * limit
Skip(page, limit) == (page - 1) * limit

\* Math.floor in place of Math.ceil
CeilFloor(a, b) == a \div b

\* Math.ceil(a / b) for a >= 0 and b > 0
Ceil(a, b) == IF a % b = 0 THEN a \div b ELSE (a \div b) + 1

Truthy(k, v) == IF k \in {"stage", "status"} THEN v # "" ELSE v # <<>>

\* the where object getLeads builds from the validated query
WhereKeys(q) ==
  (IF Has(q, "search") /\ Truthy("search", q["search"]) THEN {"OR"} ELSE {})
  \cup {f \in {"stage", "status", "source", "country"} :
          Has(q, f) /\ Truthy(f, q[f])}

\* the where object with phone left out of the search
WhereNoPhone(q) ==
  [k \in WhereKeys(q) |->
     IF k = "OR"
     THEN {[field |-> f, contains |-> q["search"]] :
             f \in SearchFields \ {"phone"}}
     ELSE q[k]]

Where(q) ==
  [k \in WhereKeys(q) |->
     IF k = "OR"
     THEN {[field |-> f, contains |-> q["search"]] : f \in SearchFields}
     ELSE q[k]]

(***************************************************************************)
(* Application level: request entry, 404 handler, error handler.           *)
(***************************************************************************)
\* a request enters the application: express.json() hands a malformed body
\* to the error handler, app.use('/api/leads', leadRoutes) mounts the lead
\* router, and any other path reaches the 404 handler
ReceiveFrom(requests) ==
  /\ pc = "idle"
  /\ Alive
  /\ startPc = "listening"
  /\ \E r \in requests :
       /\ req' = r
       /\ pc' = IF r.badBody THEN "errorHandler"
                ELSE IF r.mount = "leads" THEN First(LeadRouter(r.segs))
                ELSE "notFound"
       /\ locals' = IF r.badBody THEN [err |-> "Unexpected token"] ELSE NoLocals
  /\ resp' = NoResp
  /\ invoked' = <<>>
  /\ storeOps' = 0
  /\ interleaved' = FALSE
  /\ UNCHANGED <<leads, users, seedVars, serverVars>>

Receive == ReceiveFrom(Requests)

\* the response has gone out and the request is over
Finish ==
  /\ pc = "done"
  /\ Alive
  /\ pc' = "idle"
  /\ req' = NoRequest
  /\ locals' = NoLocals
  /\ resp' = NoResp
  /\ invoked' = <<>>
  /\ storeOps' = 0
  /\ interleaved' = FALSE
  /\ UNCHANGED <<leads, users, seedVars, serverVars>>

NotFound ==
  /\ pc = "notFound"
  /\ Alive
  /\ invoked' = Append(invoked, "notFound")
  /\ Send(404, [error |-> "Route not found"])
  /\ UNCHANGED <<leads, untouched, req, locals, storeOps>>

\* the body the error handler sends
ErrorBody(env, err) ==
  [k \in {"message"} \cup (IF env = "development" THEN {"stack"} ELSE {}) |->
     IF k = "message"
     THEN (IF env = "production" THEN "Internal server error" ELSE err)
     ELSE "stack trace"]

\* the handler reads process.env.NODE_ENV when it runs
ErrorHandler ==
  /\ pc = "errorHandler"
  /\ Alive
  /\ invoked' = Append(invoked, "errorHandler")
  /\ \E env \in NodeEnvs :
       /\ locals' = Put(locals, "NODE_ENV", env)
       /\ Send(500, ErrorBody(env, locals.err))
  /\ UNCHANGED <<leads, untouched, req, storeOps>>

(***************************************************************************)
(* Middleware of the lead router.                                          *)
(***************************************************************************)
\* the auth gate: a verified bearer token lets the request proceed, any
\* other answers 401
AuthMiddleware ==
  /\ pc = "authMiddleware"
  /\ Alive
  /\ invoked' = Append(invoked, "authMiddleware")
  /\ IF req.token = "valid"
     THEN pc' = NextOf("authMiddleware") /\ resp' = resp
     ELSE Send(401, [message |-> "Invalid or expired token"])
  /\ UNCHANGED <<leads, untouched, req, locals, storeOps>>

\* validateQuery(leadQuerySchema): 400 with the failing fields, or the
\* request's query replaced by the parsed object
ValidateQuery ==
  /\ pc = "validateQuery"
  /\ Alive
  /\ invoked' = Append(invoked, "validateQuery")
  /\ IF QueryIssues(req.query) # {}
     THEN /\ Send(400, [message |-> "Validation error",
                        errors |-> QueryIssues(req.query)])
          /\ req' = req
     ELSE /\ req' = [req EXCEPT !.query = QueryParsed(req.query)]
          /\ pc' = NextOf("validateQuery")
          /\ resp' = resp
  /\ UNCHANGED <<leads, untouched, locals, storeOps>>

\* validateParams(leadIdSchema)
ValidateParams ==
  /\ pc = "validateParams"
  /\ Alive
  /\ invoked' = Append(invoked, "validateParams")
  /\ IF ~IdOk(req.segs[1])
     THEN Send(400, [message |-> "Validation error", errors |-> {"id"}])
     ELSE pc' = NextOf("validateParams") /\ resp' = resp
  /\ UNCHANGED <<leads, untouched, req, locals, storeOps>>

(***************************************************************************)
(* getLeads: a count, then a windowed fetch.                               *)
(***************************************************************************)
\* entry up to the answer of prisma.lead.count
GetLeads ==
  /\ pc = "getLeads"
  /\ Alive
  /\ invoked' = Append(invoked, "getLeads")
  /\ storeOps' = storeOps + 1
  /\ LET q == req.query
     IN \/ /\ locals' = [skip |-> Skip(q["page"], q["limit"]),
                         where |-> Where(q),
                         total |-> Count(leads, Where(q))]
           /\ pc' = "getLeads.findMany"
           /\ resp' = resp
        \/ \E e \in StoreErrors : Catch500(e)
  /\ UNCHANGED <<leads, untouched, req>>

\* the envelope with total taken from the page returned
PaginatedResponseLength(found, total, page, limit) ==
  [data |-> found,
   pagination |-> [total |-> Len(found), page |-> page, limit |-> limit,
                   totalPages |-> Ceil(Len(found), limit)]]

\* the envelope of the list response
PaginatedResponse(found, total, page, limit) ==
  [data |-> found,
   pagination |-> [total |-> total, page |-> page, limit |-> limit,
                   totalPages |-> Ceil(total, limit)]]

\* the answer of prisma.lead.findMany, and the response; the client
\* rejects an orderBy key that is no column of the model
GetLeadsFindMany ==
  /\ pc = "getLeads.findMany"
  /\ Alive
  /\ storeOps' = storeOps + 1
  /\ LET q == req.query
     IN IF q["sortBy"] \notin LeadFields
        THEN Catch500("PrismaClientValidationError")
        ELSE \/ /\ \E found \in FindMany(leads, locals.where, locals.skip,
                                         q["limit"], q["sortBy"],
                                         q["sortOrder"]) :
                     Send(200, PaginatedResponse(found, locals.total,
                                                 q["page"], q["limit"]))
                /\ locals' = locals
             \/ \E e \in StoreErrors : Catch500(e)
  /\ UNCHANGED <<leads, untouched, req, invoked>>

(***************************************************************************)
(* getLeadById.                                                            *)
(***************************************************************************)
\* a lookup that ignores the id
FindUniqueFirst(coll, id) == coll

\* prisma.lead.findUnique({ where: { id } }): the leads found (none or one)
FindUnique(coll, id) == {l \in coll : l.id = id}

\* the handler with prisma.lead.delete({ where: { id } }) in place of the
\* lookup: the lead found leaves the collection
GetLeadByIdDelete ==
  /\ pc = "getLeadById"
  /\ Alive
  /\ invoked' = Append(invoked, "getLeadById")
  /\ storeOps' = storeOps + 1
  /\ LET found == FindUnique(leads, req.segs[1])
     IN \/ /\ IF found = {}
              THEN Send(404, [error |-> "Lead not found"])
              ELSE Send(200, CHOOSE l \in found : TRUE)
           /\ locals' = locals
           /\ leads' = leads \ found
        \/ \E e \in StoreErrors : Catch500(e) /\ leads' = leads
  /\ UNCHANGED <<untouched, req>>

GetLeadById ==
  /\ pc = "getLeadById"
  /\ Alive
  /\ invoked' = Append(invoked, "getLeadById")
  /\ storeOps' = storeOps + 1
  /\ LET found == FindUnique(leads, req.segs[1])
     IN \/ /\ IF found = {}
              THEN Send(404, [error |-> "Lead not found"])
              ELSE Send(200, CHOOSE l \in found : TRUE)
           /\ locals' = locals
        \/ \E e \in StoreErrors : Catch500(e)
  /\ UNCHANGED <<leads, untouched, req>>

(***************************************************************************)
(* getAnalytics: seven store operations, one after the other.              *)
(***************************************************************************)
\* one awaited store operation of getAnalytics: its result is kept under
\* key and the handler goes on to the next operation, or the catch block
\* answers 500
AnalyticsOp(from, to, key, results) ==
  /\ pc = from
  /\ Alive
  /\ storeOps' = storeOps + 1
  /\ \/ /\ \E r \in results : locals' = Put(locals, key, r)
        /\ pc' = to
        /\ resp' = resp
     \/ \E e \in StoreErrors : Catch500(e)
  /\ UNCHANGED <<leads, untouched, req>>

AnalyticsTotal ==
  /\ AnalyticsOp("getAnalytics", "getAnalytics.converted", "totalLeads",
                 {Count(leads, NoLocals)})
  /\ invoked' = Append(invoked, "getAnalytics")

AnalyticsConverted ==
  /\ AnalyticsOp("getAnalytics.converted", "getAnalytics.active",
                 "convertedLeads", {Count(leads, [status |-> "CONVERTED"])})
  /\ invoked' = invoked

\* the third operation counting every lead, whatever its status
AnalyticsActiveAll ==
  /\ AnalyticsOp("getAnalytics.active", "getAnalytics.aggregate",
                 "activeLeads", {Count(leads, NoLocals)})
  /\ invoked' = invoked

AnalyticsActive ==
  /\ AnalyticsOp("getAnalytics.active", "getAnalytics.aggregate",
                 "activeLeads", {Count(leads, [status |-> "ACTIVE"])})
  /\ invoked' = invoked

AnalyticsAggregate ==
  /\ AnalyticsOp("getAnalytics.aggregate", "getAnalytics.byStage",
                 "valueAggregation", {Aggregate(leads)})
  /\ invoked' = invoked

AnalyticsByStage ==
  /\ AnalyticsOp("getAnalytics.byStage", "getAnalytics.byStatus",
                 "leadsByStageRaw", {GroupBy(leads, "stage")})
  /\ invoked' = invoked

AnalyticsByStatus ==
  /\ AnalyticsOp("getAnalytics.byStatus", "getAnalytics.bySource",
                 "leadsByStatusRaw", {GroupBy(leads, "status")})
  /\ invoked' = invoked

\* a reduce that stores 1 for every group
ReduceOnes(raw) == [k \in {g.key : g \in raw} |-> 1]

\* raw.reduce((acc, item) => { acc[item.key] = item._count; ... }, {})
Reduce(raw) ==
  [k \in {g.key : g \in raw} |-> (CHOOSE g \in raw : g.key = k).count]

\* x || 0 on a nullable number
OrZero(x) == IF x.null THEN 0 ELSE x.val

\* the average passed on without || 0
AvgAsIs(x) == x

\* x || 0 on the nullable average: null and 0 both give the number 0
AvgOrZero(x) ==
  IF x.null \/ x.num = 0 THEN [null |-> FALSE, num |-> 0, den |-> 1]
  ELSE x

\* the AnalyticsData object assembled from the results of the operations
AnalyticsData(l, bySource) ==
  [totalLeads |-> l.totalLeads,
   convertedLeads |-> l.convertedLeads,
   activeLeads |-> l.activeLeads,
   totalValue |-> OrZero(l.valueAggregation.sum),
   averageValue |-> AvgOrZero(l.valueAggregation.avg),
   leadsByStage |-> Reduce(l.leadsByStageRaw),
   leadsByStatus |-> Reduce(l.leadsByStatusRaw),
   leadsBySource |->
     [i \in 1..Len(bySource) |->
        [source |-> bySource[i].key, count |-> bySource[i].count]]]

\* the last operation, groupBy source, and the response
AnalyticsBySource ==
  /\ pc = "getAnalytics.bySource"
  /\ Alive
  /\ storeOps' = storeOps + 1
  /\ \/ /\ \E r \in GroupBySourceTop(leads) :
             Send(200, AnalyticsData(locals, r))
        /\ locals' = locals
     \/ \E e \in StoreErrors : Catch500(e)
  /\ UNCHANGED <<leads, untouched, req, invoked>>

(***************************************************************************)
(* Specification.                                                          *)
(***************************************************************************)
Next ==
  \/ Receive
  \/ Finish
  \/ NotFound
  \/ ErrorHandler
  \/ AuthMiddleware
  \/ ValidateQuery
  \/ ValidateParams
  \/ GetLeads
  \/ GetLeadsFindMany
  \/ GetLeadById
  \/ AnalyticsTotal
  \/ AnalyticsConverted
  \/ AnalyticsActive
  \/ AnalyticsAggregate
  \/ AnalyticsByStage
  \/ AnalyticsByStatus
  \/ AnalyticsBySource

Spec == Init /\ [][Next]_vars

(***************************************************************************)
(* The analytics endpoint over collections of many sources.                *)
(***************************************************************************)
AnalyticsRequests ==
  {Request(t, "leads", <<AnalyticsSeg>>, NoQuery, FALSE) : t \in Tokens}

ReceiveAnalytics == ReceiveFrom(AnalyticsRequests)

InitSources ==
  /\ leads \in SourceCollections
  /\ users = {DemoUser}
  /\ NoRequestInFlight
  /\ SeedAtRest
  /\ ServerUp

NextSources ==
  \/ ReceiveAnalytics
  \/ Finish
  \/ AuthMiddleware
  \/ AnalyticsTotal
  \/ AnalyticsConverted
  \/ AnalyticsActive
  \/ AnalyticsAggregate
  \/ AnalyticsByStage
  \/ AnalyticsByStatus
  \/ AnalyticsBySource

SpecSources == InitSources /\ [][NextSources]_vars

(***************************************************************************)
(* The seed script.  It is a process of its own with its own store client; *)
(* its loop has no await, so the leads array is built in one step.         *)
(***************************************************************************)
\* the leads one run generates: the 500 of the loop, scaled down
SeedLeads == 3

\* the suffix of the first draw, getRandomNumber(1, 999), scaled down
MaxFirstDraw == 2

\* the suffix of a redraw, getRandomNumber(1, 9999), scaled down
MaxRedraw == 3

\* the runs of the script the model follows
MaxSeedRuns == 2

\* `${firstName}.${lastName}${n}@example.com` for one first and last name
SeedEmail(n) == <<"a", "n", ".", "b", "o", HexDigits[n], "@", "x">>

FirstDraws == {SeedEmail(n) : n \in 1..MaxFirstDraw}

Redraws == {SeedEmail(n) : n \in 1..MaxRedraw}

\* the emails the loop body may end with: the first draw when it is unused,
\* else whatever unused email the while loop stops at
UniqueEmails(used) ==
  (FirstDraws \ used)
  \cup (IF FirstDraws \cap used # {} THEN Redraws \ used ELSE {})

\* the stages the model draws from the stages array
SeedStages == {"NEW", "CLOSED_WON"}

\* status follows stage: CLOSED_WON is CONVERTED, CLOSED_LOST is REJECTED,
\* any other stage is ACTIVE or INACTIVE
SeedStatuses(stage) ==
  IF stage = "CLOSED_WON" THEN {"CONVERTED"}
  ELSE IF stage = "CLOSED_LOST" THEN {"REJECTED"}
  ELSE {"ACTIVE", "INACTIVE"}

StageStatus ==
  {p \in SeedStages \X LeadStatusEnum : p[2] \in SeedStatuses(p[1])}

\* a generated lead as the store keeps it: the store assigns the id
SeedLead(email, stage, status) ==
  Lead([k \in 1..IdLen |-> IF k = 1 THEN "e" ELSE email[6]],
       <<"A","n">>, <<"B","o">>, email, <<"1","2">>, <<"C","o">>,
       stage, status, <<"W","e","b">>, <<"U","S">>, 10, 1)

\* the leads arrays the loop may build, from batch and usedEmails
RECURSIVE SeedLoop(_, _)
SeedLoop(batch, used) ==
  IF Len(batch) = SeedLeads THEN {batch}
  ELSE UNION {SeedLoop(Append(batch, SeedLead(e, p[1], p[2])), used \cup {e}) :
              e \in UniqueEmails(used), p \in StageStatus}

\* deleteMany that removes nothing
DeleteManyNone(coll) == coll

\* prisma.<model>.deleteMany() without a filter
DeleteMany(coll) == {}

requestVars == <<pc, req, locals, resp, invoked, storeOps>>

\* a write of the seed script falls between two store operations of the
\* request in flight when the request has issued one and is not answered
Wrote ==
  interleaved' = (interleaved \/ (storeOps > 0 /\ pc \notin {"idle", "done"}))

\* an awaited store call of the script throws: the catch block rethrows
\* and the process ends
SeedFails ==
  /\ \E e \in StoreErrors : seedPc' = "failed"
  /\ seedBatch' = <<>>
  /\ usedEmails' = {}
  /\ UNCHANGED <<leads, users, seedRuns, interleaved>>

\* the script is run
SeedStart ==
  /\ seedPc \in {"idle", "done", "failed"}
  /\ seedRuns < MaxSeedRuns
  /\ seedPc' = "deleteLeads"
  /\ seedRuns' = seedRuns + 1
  /\ UNCHANGED <<leads, users, seedBatch, usedEmails, interleaved>>
  /\ UNCHANGED <<requestVars, serverVars>>

SeedDeleteLeads ==
  /\ seedPc = "deleteLeads"
  /\ \/ /\ leads' = DeleteMany(leads)
        /\ seedPc' = "deleteUsers"
        /\ Wrote
        /\ UNCHANGED <<users, seedBatch, usedEmails, seedRuns>>
     \/ SeedFails
  /\ UNCHANGED <<requestVars, serverVars>>

SeedDeleteUsers ==
  /\ seedPc = "deleteUsers"
  /\ \/ /\ users' = DeleteMany(users)
        /\ seedPc' = "createUser"
        /\ UNCHANGED <<leads, seedBatch, usedEmails, seedRuns, interleaved>>
     \/ SeedFails
  /\ UNCHANGED <<requestVars, serverVars>>

SeedCreateUser ==
  /\ seedPc = "createUser"
  /\ \/ /\ users' = users \cup {DemoUser}
        /\ seedPc' = "generate"
        /\ UNCHANGED <<leads, seedBatch, usedEmails, seedRuns, interleaved>>
     \/ SeedFails
  /\ UNCHANGED <<requestVars, serverVars>>

\* the loop that fills leads and usedEmails
SeedGenerate ==
  /\ seedPc = "generate"
  /\ \E batch \in SeedLoop(<<>>, {}) :
       /\ seedBatch' = batch
       /\ usedEmails' = {batch[i].email : i \in DOMAIN batch}
  /\ seedPc' = "createMany"
  /\ UNCHANGED <<leads, users, seedRuns, interleaved>>
  /\ UNCHANGED <<requestVars, serverVars>>

\* the batch insert; with it the script has run to its end
SeedCreateMany ==
  /\ seedPc = "createMany"
  /\ \/ /\ leads' = leads \cup {seedBatch[i] : i \in DOMAIN seedBatch}
        /\ seedPc' = "done"
        /\ seedBatch' = <<>>
        /\ usedEmails' = {}
        /\ Wrote
        /\ UNCHANGED <<users, seedRuns>>
     \/ SeedFails
  /\ UNCHANGED <<requestVars, serverVars>>

\* the store before the first run: no leads or MaxLeads of them, any users
InitSeed ==
  /\ leads \in {c \in Collections : Cardinality(c) \in {0, MaxLeads}}
  /\ users \in UserCollections
  /\ NoRequestInFlight
  /\ SeedAtRest
  /\ ServerUp

NextSeed ==
  \/ SeedStart
  \/ SeedDeleteLeads
  \/ SeedDeleteUsers
  \/ SeedCreateUser
  \/ SeedGenerate
  \/ SeedCreateMany

SpecSeed == InitSeed /\ [][NextSeed]_vars

(***************************************************************************)
(* The seed script run against the store while the server answers          *)
(* analytics requests.                                                     *)
(***************************************************************************)
\* the server is up, and the script has one run left
InitRace ==
  /\ leads \in {c \in Collections : Cardinality(c) \in {0, MaxLeads}}
  /\ users = {DemoUser}
  /\ NoRequestInFlight
  /\ seedPc = "idle"
  /\ seedBatch = <<>>
  /\ usedEmails = {}
  /\ seedRuns = MaxSeedRuns - 1
  /\ ServerUp

NextRace ==
  \/ SeedStart
  \/ SeedDeleteLeads
  \/ SeedDeleteUsers
  \/ SeedCreateUser
  \/ SeedGenerate
  \/ SeedCreateMany
  \/ ReceiveAnalytics
  \/ Finish
  \/ AuthMiddleware
  \/ AnalyticsTotal
  \/ AnalyticsConverted
  \/ AnalyticsActive
  \/ AnalyticsAggregate
  \/ AnalyticsByStage
  \/ AnalyticsByStatus
  \/ AnalyticsBySource

SpecRace == InitRace /\ [][NextRace]_vars

(***************************************************************************)
(* The server process: startServer and the signal handlers.                *)
(***************************************************************************)
\* how connectDatabase() and disconnectDatabase() may end
DatabaseOutcomes == {"resolved", "rejected"}

Signals == {"SIGINT", "SIGTERM"}

\* app.listen called without waiting for connectDatabase
ListenWithoutConnect ==
  /\ startPc = "connecting"
  /\ Alive
  /\ startPc' = "listening"
  /\ UNCHANGED <<shutdownPc, dbConnected, exitCode>>
  /\ UNCHANGED <<leads, users, requestVars, interleaved, seedVars>>

\* await connectDatabase() resolves and app.listen(PORT) follows
ConnectOk ==
  /\ startPc = "connecting"
  /\ Alive
  /\ "resolved" \in DatabaseOutcomes
  /\ dbConnected' = TRUE
  /\ startPc' = "listening"
  /\ UNCHANGED <<shutdownPc, exitCode>>
  /\ UNCHANGED <<leads, users, requestVars, interleaved, seedVars>>

\* await connectDatabase() rejects: the catch block ends the process
ConnectFails ==
  /\ startPc = "connecting"
  /\ Alive
  /\ "rejected" \in DatabaseOutcomes
  /\ startPc' = "failed"
  /\ exitCode' = <<1>>
  /\ UNCHANGED <<shutdownPc, dbConnected>>
  /\ UNCHANGED <<leads, users, requestVars, interleaved, seedVars>>

\* SIGINT or SIGTERM arrives: its handler calls disconnectDatabase()
Signal ==
  /\ Alive
  /\ shutdownPc = "none"
  /\ \E sig \in Signals : shutdownPc' = sig
  /\ UNCHANGED <<startPc, dbConnected, exitCode>>
  /\ UNCHANGED <<leads, users, requestVars, interleaved, seedVars>>

\* await disconnectDatabase() resolves and process.exit(0) follows
DisconnectDone ==
  /\ Alive
  /\ shutdownPc \in Signals
  /\ "resolved" \in DatabaseOutcomes
  /\ dbConnected' = FALSE
  /\ shutdownPc' = "exited"
  /\ exitCode' = <<0>>
  /\ UNCHANGED startPc
  /\ UNCHANGED <<leads, users, requestVars, interleaved, seedVars>>

\* await disconnectDatabase() rejects: nothing catches it, process.exit(0)
\* is not reached and the unhandled rejection ends the process
DisconnectFails ==
  /\ Alive
  /\ shutdownPc \in Signals
  /\ "rejected" \in DatabaseOutcomes
  /\ shutdownPc' = "failed"
  /\ exitCode' = <<1>>
  /\ UNCHANGED <<startPc, dbConnected>>
  /\ UNCHANGED <<leads, users, requestVars, interleaved, seedVars>>

\* startServer() has been called and awaits connectDatabase()
InitServer ==
  /\ leads \in {c \in Collections : Cardinality(c) \in {0, MaxLeads}}
  /\ users = {DemoUser}
  /\ NoRequestInFlight
  /\ SeedAtRest
  /\ startPc = "connecting"
  /\ shutdownPc = "none"
  /\ dbConnected = FALSE
  /\ exitCode = <<>>

NextServer ==
  \/ ConnectOk
  \/ ConnectFails
  \/ Signal
  \/ DisconnectDone
  \/ DisconnectFails
  \/ ReceiveAnalytics
  \/ Finish
  \/ AuthMiddleware
  \/ AnalyticsTotal
  \/ AnalyticsConverted
  \/ AnalyticsActive
  \/ AnalyticsAggregate
  \/ AnalyticsByStage
  \/ AnalyticsByStatus
  \/ AnalyticsBySource

SpecServer == InitServer /\ [][NextServer]_vars

(***************************************************************************)
(* What the handlers answer on an unchanged collection.                    *)
(***************************************************************************)
\* the bodies getLeads may send for a validated query q when both of its
\* store operations read the same collection and neither throws
ListResponses(coll, q) ==
  {PaginatedResponse(found, Count(coll, Where(q)), q["page"], q["limit"]) :
     found \in FindMany(coll, Where(q), Skip(q["page"], q["limit"]),
                        q["limit"], q["sortBy"], q["sortOrder"])}

(***************************************************************************)
(* Properties.                                                             *)
(***************************************************************************)
Range(f) == {f[i] : i \in DOMAIN f}

ListRequest == req.mount = "leads" /\ req.segs = <<>> /\ ~req.badBody

\* a list request answered 200
ListOk == pc = "done" /\ ListRequest /\ resp.status = 200

AnalyticsRequest == req.mount = "leads" /\ req.segs = <<AnalyticsSeg>>

\* an analytics request answered 200
AnalyticsOk == pc = "done" /\ AnalyticsRequest /\ resp.status = 200

IdRequest ==
  req.mount = "leads" /\ Len(req.segs) = 1 /\ req.segs # <<AnalyticsSeg>>

EqualityFilters == {"stage", "status", "source", "country"}

SearchHolds(l, q) ==
  \/ ~Has(q, "search")
  \/ \E f \in {"firstName", "lastName", "email", "company", "phone"} :
       ContainsInsensitive(l[f], q["search"])

\* the leads a query selects when every parameter present in it constrains
PresentFilter(coll, q) ==
  {l \in coll :
     /\ SearchHolds(l, q)
     /\ \A k \in EqualityFilters \cap DOMAIN q : l[k] = q[k]}

\* the leads a query selects when a parameter constrains only if it is
\* present and not the empty string
NonEmptyFilter(coll, q) ==
  {l \in coll :
     /\ SearchHolds(l, q)
     /\ \A k \in EqualityFilters \cap DOMAIN q :
          Truthy(k, q[k]) => l[k] = q[k]}

\* a 200 list response filters on the set s: total counts s, every record
\* returned is of s, and a window that covers s returns all of s
FiltersOn(s) ==
  ListOk =>
    LET b == resp.body
    IN /\ b.pagination.total = Cardinality(s)
       /\ Range(b.data) \subseteq s
       /\ (b.pagination.page = 1 /\ b.pagination.limit >= Cardinality(s))
            => Range(b.data) = s

\* C1 as claimed: getLeads filters on exactly the leads that satisfy the
\* search disjunction (when search is present) and equal every one of
\* stage, status, source, country that is present in the query.
C1_FilterPresent == FiltersOn(PresentFilter(leads, req.originalQuery))

\* C1 amended: getLeads filters on exactly the leads that satisfy the search
\* disjunction (when search is present) and equal every one of stage,
\* status, source, country that is present and not the empty string; an
\* absent or empty parameter constrains nothing.
C1_FilterNonEmpty == FiltersOn(NonEmptyFilter(leads, req.originalQuery))

C1_Witness ==
  /\ ListOk
  /\ Has(req.originalQuery, "search") /\ req.originalQuery["search"] # <<>>
  /\ Has(req.originalQuery, "source") /\ req.originalQuery["source"] = <<>>
  /\ resp.body.pagination.total > 0
  /\ resp.body.pagination.total < Cardinality(leads)

Max0(a) == IF a < 0 THEN 0 ELSE a

\* C2: a 200 list response holds exactly the records at positions
\* (page-1)*limit .. (page-1)*limit+limit-1 of the filtered, sorted list:
\* min(limit, matching - skip) records (none when skip is at or beyond the
\* matching records), each a distinct matching lead that the sort order
\* allows at its position; and a validated list request whose store
\* operations did not throw is answered 200.
C2_Window ==
  /\ ListOk =>
       LET q    == req.query
           s    == NonEmptyFilter(leads, req.originalQuery)
           skip == (q["page"] - 1) * q["limit"]
           data == resp.body.data
           Before(a, b) == KeyBefore(a, b, q["sortBy"], q["sortOrder"])
       IN /\ Len(data) = Max0(Min(q["limit"], Cardinality(s) - skip))
          /\ Len(data) <= q["limit"]
          /\ \A i \in DOMAIN data : data[i] \in s
          /\ \A i, j \in DOMAIN data : i # j => data[i] # data[j]
          /\ \A i \in DOMAIN data :
               /\ Cardinality({l \in s : Before(l, data[i])}) <= skip + i - 1
               /\ Cardinality({l \in s : ~Before(data[i], l)}) >= skip + i
  /\ (pc = "done" /\ ListRequest /\ "getLeads" \in Range(invoked)
        /\ ~Has(locals, "error"))
       => resp.status = 200

C2_Witness ==
  /\ ListOk
  /\ req.query["page"] = 2 /\ req.query["limit"] = 1
  /\ resp.body.pagination.total = 3
  /\ Len(resp.body.data) = 1

\* a page beyond the matching records is answered 200 with no records
C2_EmptyPage ==
  /\ ListOk
  /\ req.query["page"] = 2 /\ req.query["limit"] = 100
  /\ resp.body.pagination.total = 3
  /\ resp.body.data = <<>>

\* C3: in a 200 list response totalPages is the least number of pages of
\* size limit that hold total records, and it is 0 exactly when total is 0.
C3_TotalPages ==
  ListOk =>
    LET g == resp.body.pagination
    IN /\ g.totalPages * g.limit >= g.total
       /\ (g.totalPages - 1) * g.limit < g.total
       /\ g.totalPages = 0 <=> g.total = 0

C3_Witness ==
  /\ ListOk
  /\ resp.body.pagination.total = 3
  /\ resp.body.pagination.limit = 2
  /\ resp.body.pagination.totalPages = 2

\* the validated queries that differ from q at most in page, limit, sortBy
\* and sortOrder
WindowVariants(q) ==
  {[q EXCEPT !["page"] = p, !["limit"] = l, !["sortBy"] = sb,
             !["sortOrder"] = so] :
     p \in 1..2, l \in {1, MaxLimit},
     sb \in {"createdAt", "value"}, so \in SortOrderEnum}

\* C4: the total of a 200 list response is the number of leads matching the
\* filter, and every list request on the same collection that differs only
\* in page, limit, sortBy or sortOrder reports the same total.
C4_TotalOfFilter ==
  ListOk =>
    /\ resp.body.pagination.total =
         Cardinality(NonEmptyFilter(leads, req.originalQuery))
    /\ \A v \in WindowVariants(req.query) :
         \A b \in ListResponses(leads, v) :
           b.pagination.total = resp.body.pagination.total

C4_Witness ==
  /\ ListOk
  /\ Has(req.originalQuery, "stage")
  /\ req.query["limit"] = 1
  /\ resp.body.pagination.total = 2
  /\ Len(resp.body.data) = 1

\* the handlers and validators of the lead router
Downstream ==
  {"validateQuery", "validateParams", "getLeads", "getLeadById",
   "getAnalytics"}

\* a request in flight to one of the three lead endpoints
LeadEndpoint ==
  pc # "idle" /\ req.mount = "leads" /\ Len(req.segs) <= 1 /\ ~req.badBody

\* C5: a request to a lead endpoint whose bearer token is missing,
\* malformed, badly signed or expired gets no further than the auth gate:
\* no validator and no handler runs for it, no store operation is issued,
\* and its response is 401.
C5_AuthGate ==
  (LeadEndpoint /\ req.token # "valid") =>
    /\ Range(invoked) \cap Downstream = {}
    /\ storeOps = 0
    /\ pc \in {"authMiddleware", "done"}
    /\ pc = "done" => resp.status = 401

C5_Witness ==
  /\ pc = "done"
  /\ AnalyticsRequest
  /\ req.token = "expired"
  /\ resp.status = 401
  /\ invoked = <<"authMiddleware">>

NotPositiveInteger(raw) ==
  LET n == NumberOf(raw) IN n.nan \/ ~n.int \/ n.val < 1

\* a list query the claim says is rejected
RejectedQuery(q) ==
  \/ Has(q, "limit") /\ (NotPositiveInteger(q["limit"])
                           \/ NumberOf(q["limit"]).val > 100)
  \/ Has(q, "page") /\ NotPositiveInteger(q["page"])
  \/ Has(q, "stage") /\ q["stage"] \notin LeadStageEnum
  \/ Has(q, "status") /\ q["status"] \notin LeadStatusEnum
  \/ Has(q, "sortOrder") /\ q["sortOrder"] \notin {"asc", "desc"}

\* C6: an authenticated list request whose limit is not a positive integer
\* or exceeds 100, whose page is not a positive integer, or whose stage,
\* status or sortOrder is outside its enum is answered 400; getLeads is
\* never entered for it and no store operation is issued.
C6_Rejected ==
  (pc # "idle" /\ ListRequest /\ req.token = "valid"
     /\ RejectedQuery(req.originalQuery)) =>
    /\ "getLeads" \notin Range(invoked)
    /\ storeOps = 0
    /\ pc \in {"authMiddleware", "validateQuery", "done"}
    /\ pc = "done" => resp.status = 400

C6_Witness ==
  /\ pc = "done"
  /\ ListRequest
  /\ req.token = "valid"
  /\ Has(req.originalQuery, "limit")
  /\ req.originalQuery["limit"] = <<"1", "0", "1">>
  /\ resp.status = 400

\* a request for one lead by a well-formed id, answered
LeadByIdDone ==
  pc = "done" /\ IdRequest /\ req.token = "valid" /\ IdOk(req.segs[1])

\* C7: getLeadById with a well-formed id answers 200 with the lead exactly
\* when a lead with that id is in the collection, and 404 without any lead
\* data when there is none (500 only when the store operation threw).
C7_LeadById ==
  LeadByIdDone =>
    LET id     == req.segs[1]
        exists == \E l \in leads : l.id = id
    IN /\ resp.status = 200 => exists /\ resp.body \in leads
                                 /\ resp.body.id = id
       /\ resp.status = 404 => ~exists /\ DOMAIN resp.body = {"error"}
       /\ ~Has(locals, "error") =>
            /\ resp.status \in {200, 404}
            /\ resp.status = 200 <=> exists
       /\ Has(locals, "error") => resp.status = 500

C7_Witness ==
  /\ LeadByIdDone
  /\ leads # {}
  /\ resp.status = 404

C7_Found == LeadByIdDone /\ resp.status = 200

\* C8 as claimed: every 404 and 500 response carries a field named message.
C8_MessageEnvelope ==
  (pc = "done" /\ resp.status \in {404, 500}) =>
    "message" \in DOMAIN resp.body

\* C9: a 200 analytics response has totalValue the sum of value over all
\* leads and averageValue a number, never null; averageValue times
\* totalLeads is totalValue when there are leads, and both are 0 when the
\* collection is empty.
C9_Average ==
  AnalyticsOk =>
    LET b == resp.body
    IN /\ b.totalLeads = Cardinality(leads)
       /\ b.totalValue = SumValue(leads)
       /\ ~b.averageValue.null
       /\ b.averageValue.den > 0
       /\ b.totalLeads > 0 =>
            b.averageValue.num * b.totalLeads
              = b.totalValue * b.averageValue.den
       /\ b.totalLeads = 0 => b.totalValue = 0 /\ b.averageValue.num = 0

C9_Witness ==
  /\ AnalyticsOk
  /\ resp.body.totalLeads = 3
  /\ resp.body.totalValue = 40
  /\ resp.body.averageValue.den = 3

C9_Empty == AnalyticsOk /\ resp.body.totalLeads = 0

CountOf(m, k) == IF k \in DOMAIN m THEN m[k] ELSE 0

RECURSIVE SumOver(_, _)
SumOver(m, keys) ==
  IF keys = {} THEN 0
  ELSE LET k == CHOOSE x \in keys : TRUE
       IN m[k] + SumOver(m, keys \ {k})

\* C10: in a 200 analytics response the counts of leadsByStatus add up to
\* totalLeads, and its CONVERTED and ACTIVE counts (0 when the key is
\* omitted) are convertedLeads and activeLeads.
C10_ByStatus ==
  AnalyticsOk =>
    LET b == resp.body
    IN /\ SumOver(b.leadsByStatus, DOMAIN b.leadsByStatus) = b.totalLeads
       /\ CountOf(b.leadsByStatus, "CONVERTED") = b.convertedLeads
       /\ CountOf(b.leadsByStatus, "ACTIVE") = b.activeLeads

C10_Witness ==
  /\ AnalyticsOk
  /\ resp.body.totalLeads = 3
  /\ resp.body.activeLeads = 2
  /\ ~Has(resp.body.leadsByStatus, "CONVERTED")
  /\ resp.body.convertedLeads = 0

(***************************************************************************)
(* C11: the source analysis.                                               *)
(***************************************************************************)
SourcesOf(coll) == {l.source : l \in coll}

LeadsOfSource(coll, src) == Cardinality({l \in coll : l.source = src})

\* C11: in every 200 analytics response leadsBySource has at most 10
\* entries, each count is the number of leads of that source, the counts are
\* in non-increasing order, and no source left out has a strictly higher
\* count than a source included.
C11_TopSources ==
  AnalyticsOk =>
    LET bs == resp.body.leadsBySource
        included == {bs[i].source : i \in DOMAIN bs}
    IN /\ Len(bs) <= 10
       /\ \A i \in DOMAIN bs : bs[i].count = LeadsOfSource(leads, bs[i].source)
       /\ \A i, j \in DOMAIN bs : i < j => bs[i].count >= bs[j].count
       /\ \A src \in SourcesOf(leads) \ included :
            \A i \in DOMAIN bs : LeadsOfSource(leads, src) <= bs[i].count

\* a response over more than 10 sources where a source left out has as many
\* leads as the last one included
C11_Witness ==
  /\ AnalyticsOk
  /\ Cardinality(SourcesOf(leads)) > 10
  /\ LET bs == resp.body.leadsBySource
     IN /\ Len(bs) = 10
        /\ \E src \in SourcesOf(leads) \ {bs[i].source : i \in DOMAIN bs} :
             LeadsOfSource(leads, src) = bs[10].count

(***************************************************************************)
(* C12: the handlers only read.                                            *)
(***************************************************************************)
\* C12: no step of getLeads, getLeadById or getAnalytics, of the middleware
\* ahead of them or of the application's own handlers, whether the request
\* succeeds or fails, changes the Lead or the User collection.
C12_ReadOnly == [][leads' = leads /\ users' = users]_vars

\* getLeadById has answered with a lead, and the lead is still in the store
C12_Witness ==
  /\ LeadByIdDone
  /\ resp.status = 200
  /\ resp.body \in leads
  /\ storeOps = 1

(***************************************************************************)
(* C13: a failed store operation.                                          *)
(***************************************************************************)
\* the catch block of the running handler has caught a store error
Caught == Has(locals, "error")

\* C13: the step in which a store operation of getLeads, getLeadById or
\* getAnalytics fails answers 500 at once, and after it no store operation
\* is issued and no other response is sent for the request.
C13_NoRetry ==
  [][(/\ (~Caught /\ Caught') =>
           /\ storeOps' = storeOps + 1
           /\ resp = NoResp
           /\ resp'.status = 500
           /\ pc' = "done"
      /\ Caught =>
           /\ storeOps' <= storeOps
           /\ resp' \in {resp, NoResp}
           /\ resp.status = 500)]_vars

\* the third operation of getAnalytics failed: the remaining four were
\* not issued
C13_Witness ==
  /\ Caught
  /\ AnalyticsRequest
  /\ pc = "done"
  /\ storeOps = 3
  /\ resp.status = 500
  /\ DOMAIN locals = {"totalLeads", "convertedLeads", "error"}

(***************************************************************************)
(* C14: the global error handler.                                          *)
(***************************************************************************)
\* a response of the global error handler
ErrorHandled == pc = "done" /\ "errorHandler" \in Range(invoked)

\* C14 as claimed: the 500 response of the global error handler carries the
\* raw error message or a stack only when NODE_ENV is development; in
\* production and in any other mode the message is 'Internal server error'
\* and there is no stack.
C14_RawOnlyInDevelopment ==
  ErrorHandled =>
    /\ resp.status = 500
    /\ locals.NODE_ENV # "development" =>
         /\ resp.body.message = "Internal server error"
         /\ "stack" \notin DOMAIN resp.body

(***************************************************************************)
(* C15: what a seed run leaves in the store.                               *)
(***************************************************************************)
\* C15: when a run of the seed script has completed without error, whatever
\* the store held before and whether it is the first run or a later one,
\* the Lead collection holds exactly the generated number of leads (500 in
\* the script, SeedLeads here), their emails are pairwise distinct, and the
\* User collection holds the demo user alone.
C15_SeedResult ==
  seedPc = "done" =>
    /\ Cardinality(leads) = SeedLeads
    /\ Cardinality({l.email : l \in leads}) = SeedLeads
    /\ users = {DemoUser}

\* a second run has completed, and one of its emails came from a redraw
C15_Witness ==
  /\ seedPc = "done"
  /\ seedRuns = 2
  /\ Cardinality(leads) = SeedLeads
  /\ users = {DemoUser}
  /\ \E l \in leads : l.email \notin FirstDraws

(***************************************************************************)
(* C16: the order of the steps on a lead route.                            *)
(***************************************************************************)
\* the steps of a lead route in the order the claim gives them
StepsInOrder ==
  IF ListRequest THEN <<"authMiddleware", "validateQuery", "getLeads">>
  ELSE IF AnalyticsRequest THEN <<"authMiddleware", "getAnalytics">>
  ELSE <<"authMiddleware", "validateParams", "getLeadById">>

\* a list request with a rejected query, or an id request with a malformed id
InvalidInput ==
  \/ ListRequest /\ RejectedQuery(req.originalQuery)
  \/ IdRequest /\ ~IdOk(req.segs[1])

\* C16: on every lead route the steps run in the order auth gate, request
\* validator, handler; a request that is both unauthenticated and invalid is
\* answered 401, never 400; and a validator runs only for a request that
\* passed authentication.
C16_AuthBeforeValidation ==
  LeadEndpoint =>
    /\ invoked = SubSeq(StepsInOrder, 1, Len(invoked))
    /\ (req.token # "valid" /\ InvalidInput /\ pc = "done") =>
         resp.status = 401
    /\ Range(invoked) \cap {"validateQuery", "validateParams"} # {} =>
         req.token = "valid" /\ invoked[1] = "authMiddleware"

\* no token and limit=101: answered 401 by the auth gate alone
C16_Witness ==
  /\ pc = "done"
  /\ ListRequest
  /\ req.token = "missing"
  /\ Has(req.originalQuery, "limit")
  /\ req.originalQuery["limit"] = <<"1","0","1">>
  /\ resp.status = 401
  /\ invoked = <<"authMiddleware">>

(***************************************************************************)
(* C17: getAnalytics against a store that is written meanwhile.            *)
(***************************************************************************)
\* the sub-statistics of an analytics body agree with one another
Agree(b) ==
  /\ SumOver(b.leadsByStatus, DOMAIN b.leadsByStatus) = b.totalLeads
  /\ SumOver(b.leadsByStage, DOMAIN b.leadsByStage) = b.totalLeads
  /\ b.convertedLeads + b.activeLeads <= b.totalLeads
  /\ b.convertedLeads = CountOf(b.leadsByStatus, "CONVERTED")
  /\ b.activeLeads = CountOf(b.leadsByStatus, "ACTIVE")

\* C17: the seven store operations of getAnalytics are separate steps, and
\* the sub-statistics of a 200 response disagree only when a write of the
\* seed script fell between two of them; the witness is such a response.
C17_DisagreeOnlyInterleaved ==
  (AnalyticsOk /\ ~interleaved) => Agree(resp.body)

\* a response produced across a seed run: the counts by status do not add up
\* to totalLeads, and convertedLeads + activeLeads exceeds it
C17_Witness ==
  /\ AnalyticsOk
  /\ interleaved
  /\ SumOver(resp.body.leadsByStatus, DOMAIN resp.body.leadsByStatus)
       # resp.body.totalLeads
  /\ resp.body.convertedLeads + resp.body.activeLeads > resp.body.totalLeads

(***************************************************************************)
(* C18: /analytics is matched ahead of /:id.                               *)
(***************************************************************************)
\* C18: an authenticated GET /api/leads/analytics goes from the auth gate
\* to getAnalytics: the id validation and getLeadById never run for it, and
\* its answer is never the 400 of a malformed id nor a 404.
C18_AnalyticsRoute ==
  (pc # "idle" /\ AnalyticsRequest /\ req.token = "valid") =>
    /\ Range(invoked) \cap {"validateParams", "getLeadById", "notFound"} = {}
    /\ pc \notin {"validateParams", "getLeadById", "notFound"}
    /\ pc \notin {"authMiddleware"} => "getAnalytics" \in Range(invoked)
                                         \/ pc = "getAnalytics"
    /\ pc = "done" => resp.status \in {200, 500}

\* the analytics handler answered the request to /analytics
C18_Witness ==
  /\ AnalyticsOk
  /\ req.token = "valid"
  /\ invoked = <<"authMiddleware", "getAnalytics">>
  /\ storeOps = 7

(***************************************************************************)
(* C19: start and shutdown of the server process.                          *)
(***************************************************************************)
\* C19: the server starts to listen only in the step in which the store
\* connection is established; a failed connectDatabase ends the process with
\* code 1 from the state in which it never listened; every step of request
\* handling is taken while the server listens with the connection up; and
\* the process exits with code 0 only from a signal handler, with the store
\* disconnected.
C19_Lifecycle ==
  [][(/\ (startPc' = "listening" /\ startPc # "listening") =>
           startPc = "connecting" /\ dbConnected'
      /\ startPc' = "failed" =>
           /\ startPc \in {"connecting", "failed"}
           /\ exitCode' = <<1>>
           /\ ~dbConnected'
      /\ startPc = "failed" => startPc' = "failed"
      /\ requestVars' # requestVars =>
           /\ startPc = "listening"
           /\ dbConnected
           /\ exitCode = <<>>
      /\ (exitCode' = <<0>> /\ exitCode = <<>>) =>
           /\ shutdownPc \in Signals
           /\ ~dbConnected'
      /\ exitCode # <<>> => exitCode' = exitCode)]_vars

\* a request was answered, a signal arrived, the store was disconnected and
\* the process exited with code 0
C19_Witness ==
  /\ exitCode = <<0>>
  /\ shutdownPc = "exited"
  /\ startPc = "listening"
  /\ ~dbConnected
  /\ AnalyticsOk

====
